---------------------------- MODULE Spec2Model ----------------------------
(***************************************************************************)
(* MAX! Cube integration: the polling coordinator (__init__.py), the       *)
(* climate entities (climate.py) and the binary sensors (binary_sensor.py).*)
(*                                                                         *)
(* The event loop runs one callback at a time; cube.update and             *)
(* cube.set_temperature_mode run on executor worker threads and interleave *)
(* with the event loop and with each other.  Temperatures are kept in      *)
(* half-degree units (4.5 C = 9, 30.5 C = 61), which is the resolution of  *)
(* the gateway.                                                            *)
(***************************************************************************)
EXTENDS Integers, Sequences, FiniteSets, TLC

\* ------------------------------------------------------------ bounds
\* Number of event-loop tasks that run concurrently; each is a scheduled poll
\* or a service call (set hvac mode / preset / temperature).
NumTasks == 2

\* --------------------------------------------------------- constants
\* Python's None for an absent temperature / mode / valve.
None == -1

\* climate.py:43-47, in half degrees.
OFF_TEMPERATURE == 9
ON_TEMPERATURE == 61
MIN_TEMPERATURE == 10
MAX_TEMPERATURE == 60

\* maxcube.device mode constants imported at climate.py:8-14.
MAX_DEVICE_MODE_AUTOMATIC == 0
MAX_DEVICE_MODE_MANUAL == 1
MAX_DEVICE_MODE_VACATION == 2
MAX_DEVICE_MODE_BOOST == 3

\* HVACMode / HVACAction / presets (climate.py:16-26, 41).
HVAC_OFF == "off"
HVAC_HEAT == "heat"
HVAC_AUTO == "auto"
ACTION_OFF == "off"
ACTION_HEATING == "heating"
ACTION_IDLE == "idle"
PRESET_BOOST == "boost"
PRESET_COMFORT == "comfort"
PRESET_ECO == "eco"
PRESET_AWAY == "away"
PRESET_ON == "on"
NoPreset == "none"
NoHvacMode == "unknown"

\* climate.py:64-70
SUPPORT_PRESETS == {PRESET_BOOST, PRESET_COMFORT, PRESET_ECO, PRESET_AWAY, PRESET_ON}

\* climate.py:50-55
MODE_TO_HVAC_MODE(mode) ==
    CASE mode = MAX_DEVICE_MODE_AUTOMATIC -> HVAC_AUTO
      [] mode = MAX_DEVICE_MODE_MANUAL -> HVAC_HEAT
      [] mode = MAX_DEVICE_MODE_VACATION -> HVAC_AUTO
      [] mode = MAX_DEVICE_MODE_BOOST -> HVAC_AUTO
      [] OTHER -> NoHvacMode

\* ----------------------------------------------------------- devices
\* The radio addresses the gateway knows; the type of a device is a property
\* of the hardware behind the address.
RfAddresses == {1, 2, 3, 4}

TypeOf(rf) ==
    CASE rf = 1 -> "thermostat"
      [] rf = 2 -> "wallthermostat"
      [] rf = 3 -> "windowshutter"
      [] OTHER -> "ecoswitch"

\* Thermostat, wall thermostat and shutter share a room; the eco switch has none.
RoomOf(rf) == IF rf = 4 THEN 0 ELSE 1
Rooms == {1}

\* The device object before the gateway reported it (not in cube.devices).
NoDevice ==
    [present |-> FALSE, type |-> "none", room_id |-> 0, mode |-> None,
     target_temperature |-> None, comfort_temperature |-> None,
     eco_temperature |-> None, min_temperature |-> None,
     max_temperature |-> None, valve_position |-> None, is_open |-> FALSE]

Device(rf, mode, target, comfort, eco, valve, open) ==
    [present |-> TRUE, type |-> TypeOf(rf), room_id |-> RoomOf(rf), mode |-> mode,
     target_temperature |-> target, comfort_temperature |-> comfort,
     eco_temperature |-> eco,
     min_temperature |-> IF comfort = None THEN None ELSE OFF_TEMPERATURE,
     max_temperature |-> IF comfort = None THEN None ELSE ON_TEMPERATURE,
     valve_position |-> valve, is_open |-> open]

\* What the gateway may report for a device in one full-state dump.  The
\* configuration part (comfort / eco / min / max) is unset until the gateway
\* has sent the device's configuration.
DeviceStates(rf) ==
    CASE rf = 1 ->
           { Device(1, MAX_DEVICE_MODE_AUTOMATIC, 42, 42, 34, 40, FALSE),
             Device(1, MAX_DEVICE_MODE_MANUAL, 9, None, None, 0, FALSE) }
      [] rf = 2 ->
           { Device(2, MAX_DEVICE_MODE_VACATION, 34, 42, 34, None, FALSE) }
      [] rf = 3 ->
           { Device(3, None, None, None, None, None, TRUE) }
      [] OTHER ->
           { Device(4, None, None, None, None, None, FALSE) }

is_thermostat(dev) == dev.type = "thermostat"
is_wallthermostat(dev) == dev.type = "wallthermostat"
is_windowshutter(dev) == dev.type = "windowshutter"

\* cube.device_by_rf: the device object with this radio address, if any.
device_by_rf(c, rf) == IF c[rf].present THEN rf ELSE None

\* cube.devices_by_room
devices_by_room(c, room) == {rf \in RfAddresses : c[rf].present /\ c[rf].room_id = room}

\* ------------------------------------------------- climate attributes
Max2(a, b) == IF a >= b THEN a ELSE b
Min2(a, b) == IF a <= b THEN a ELSE b

\* The off temperature taken for the minimum.
OffAsMinimum(dev) == OFF_TEMPERATURE

\* climate.py:224-230 (a None or zero device value falls back to the default)
min_temp(dev) ==
    LET min_t == IF dev.min_temperature = None \/ dev.min_temperature = 0
                 THEN MIN_TEMPERATURE ELSE dev.min_temperature
    IN Max2(min_t, MIN_TEMPERATURE)

\* climate.py:232-238
max_temp(dev) ==
    LET max_t == IF dev.max_temperature = None \/ dev.max_temperature = 0
                 THEN MAX_TEMPERATURE ELSE dev.max_temperature
    IN Min2(max_t, MAX_TEMPERATURE)

\* climate.py:138-152
HvacModeOf(dev) ==
    IF dev.mode = MAX_DEVICE_MODE_MANUAL /\ dev.target_temperature = OFF_TEMPERATURE
    THEN HVAC_OFF
    ELSE IF MODE_TO_HVAC_MODE(dev.mode) # NoHvacMode
         THEN IF MODE_TO_HVAC_MODE(dev.mode) = HVAC_HEAT
                 /\ dev.target_temperature = OFF_TEMPERATURE
              THEN HVAC_OFF
              ELSE MODE_TO_HVAC_MODE(dev.mode)
         ELSE NoHvacMode

RECURSIVE MaxValve(_, _, _)
MaxValve(c, rfs, valve) ==
    IF rfs = {} THEN valve
    ELSE LET rf == CHOOSE x \in rfs : TRUE
             v == IF is_thermostat(c[rf]) /\ c[rf].valve_position > valve
                  THEN c[rf].valve_position ELSE valve
         IN MaxValve(c, rfs \ {rf}, v)

\* Only a thermostat's own valve counts.
OwnValve(c, dev) == IF is_thermostat(dev) THEN dev.valve_position ELSE 0

\* climate.py:154-164
ValveOf(c, dev) ==
    IF is_thermostat(dev) THEN dev.valve_position
    ELSE IF is_wallthermostat(dev)
         THEN IF dev.room_id \in Rooms
              THEN MaxValve(c, devices_by_room(c, dev.room_id), 0)
              ELSE 0
         ELSE 0

\* climate.py:166-171
HvacActionOf(c, dev) ==
    IF HvacModeOf(dev) = HVAC_OFF THEN ACTION_OFF
    ELSE IF ValveOf(c, dev) > 0 THEN ACTION_HEATING
    ELSE ACTION_IDLE

\* climate.py:176-192
TargetTemperatureOf(dev) ==
    IF HvacModeOf(dev) # HVAC_OFF
    THEN LET temp == dev.target_temperature
         IN IF temp # None /\ min_temp(dev) <= temp /\ temp <= max_temp(dev)
            THEN temp
            ELSE IF HvacModeOf(dev) = HVAC_AUTO THEN None
                 ELSE dev.comfort_temperature
    ELSE None

\* The eco temperature compared before the comfort temperature.
EcoBeforeComfort(dev) ==
    IF dev.mode = MAX_DEVICE_MODE_BOOST THEN PRESET_BOOST
    ELSE IF dev.mode = MAX_DEVICE_MODE_VACATION THEN PRESET_AWAY
    ELSE IF dev.mode = MAX_DEVICE_MODE_MANUAL
         THEN IF dev.target_temperature = dev.eco_temperature THEN PRESET_ECO
              ELSE IF dev.target_temperature = dev.comfort_temperature THEN PRESET_COMFORT
              ELSE IF dev.target_temperature = ON_TEMPERATURE THEN PRESET_ON
              ELSE NoPreset
    ELSE NoPreset

\* climate.py:203-222
_get_current_preset(dev) ==
    IF dev.mode = MAX_DEVICE_MODE_BOOST THEN PRESET_BOOST
    ELSE IF dev.mode = MAX_DEVICE_MODE_VACATION THEN PRESET_AWAY
    ELSE IF dev.mode = MAX_DEVICE_MODE_MANUAL
         THEN IF dev.target_temperature = dev.comfort_temperature THEN PRESET_COMFORT
              ELSE IF dev.target_temperature = dev.eco_temperature THEN PRESET_ECO
              ELSE IF dev.target_temperature = ON_TEMPERATURE THEN PRESET_ON
              ELSE NoPreset
    ELSE NoPreset

\* climate.py:135-201: the cached attributes of a climate entity
_update_attrs(c, dev) ==
    [hvac_mode |-> HvacModeOf(dev),
     hvac_action |-> HvacActionOf(c, dev),
     target_temperature |-> TargetTemperatureOf(dev),
     preset_mode |-> _get_current_preset(dev)]

\* The attributes of an entity that does not exist.
NoAttrs ==
    [hvac_mode |-> NoHvacMode, hvac_action |-> ACTION_IDLE,
     target_temperature |-> None, preset_mode |-> NoPreset]

\* ------------------------------------------------------------- state
NumDevices == Cardinality(RfAddresses)
Tasks == 1..NumTasks
NoTask == 0

\* What cube.update / cube.set_temperature_mode may raise on the worker thread
\* (ConnectionError is an OSError: the connection was refused or dropped;
\* ValueError stands for any exception that is neither a timeout nor an OSError).
Exceptions == {"TimeoutError", "ConnectionError", "ValueError"}
\* (request: the hvac mode whose handler submitted the job, for the record)
NoArgs == [device |-> None, temperature |-> None, mode |-> None,
           request |-> NoHvacMode]
\* No exception left an operation in the last step.
NotRaised == [from |-> "none", exc |-> "none", cause |-> "none"]

VARIABLES
    cube,            \* coordinator.cube: the device objects, by radio address
    data,            \* coordinator.data: "none" or a reference to the cube
    snapshot,        \* history: the content of coordinator.data when it was delivered
    lock,            \* coordinator._update_lock: the task holding it
    waiters,         \* tasks queued on the lock, first come first served
    pc,              \* position of each task
    exc,             \* the exception of the task's executor job, "none" if it returned
    upos,            \* devices the task's cube.update job has rewritten
    attempts,        \* cube.update jobs the task's current refresh call has started
    args,            \* the arguments of the task's cube.set_temperature_mode job
    platforms_ready, \* the platforms' async_setup_entry ran
    entity_device,   \* MaxCubeClimate._device, by the entity's radio address
    attrs,           \* MaxCubeClimate._attr_*: the cached attributes
    shutter_device,  \* MaxCubeShutter._device
    raised,          \* the exception the last step delivered to its caller
    effect_pending,  \* history: devices commanded successfully since the last
                     \* coordinator update callback
    update_interval, \* the coordinator's update_interval, in seconds
    use_persistent_connection, \* cube.use_persistent_connection
    paired,          \* the radio addresses the gateway reports in its dump
    session,         \* the cube's connection to the gateway
    lifecycle,       \* the config entry: "loaded", "unloading", "unloaded"
    stop_listener,   \* the EVENT_HOMEASSISTANT_STOP listener is registered
    disconnects,     \* the cube.disconnect jobs handed to the executor and not
                     \* yet run, by the place that submitted them
    hass_data,       \* hass.data: whether the DOMAIN key is there, and the entry
                     \* ids that have a coordinator under it
    entries,         \* the config entries of the domain, by gateway
    flows            \* the config flows in progress

vars == <<cube, data, snapshot, lock, waiters, pc, exc, upos, attempts, args,
          platforms_ready, entity_device, attrs, shutter_device, raised,
          effect_pending, update_interval, use_persistent_connection, paired,
          session, lifecycle, stop_listener, disconnects, hass_data, entries,
          flows>>

\* One entry's coordinator, cube and entities.
program_vars == <<cube, data, snapshot, lock, waiters, pc, exc, upos, attempts, args,
                  platforms_ready, entity_device, attrs, shutter_device, raised,
                  effect_pending, update_interval, use_persistent_connection,
                  paired, session, lifecycle, stop_listener, disconnects>>
host_vars == <<hass_data, entries, flows>>

coordinator_vars == <<data, snapshot, lock, waiters>>
entity_vars == <<platforms_ready, entity_device, attrs, shutter_device>>
\* What is fixed when the coordinator is constructed, and the gateway's pairing.
config_vars == <<update_interval, use_persistent_connection, paired>>
unload_vars == <<lifecycle, stop_listener, disconnects>>

\* __init__.py:30
DEFAULT_SCAN_INTERVAL == 30

\* update_interval < 300 s instead of <= 300 s.
StrictlyBelowLimit(interval) == interval < 300

\* __init__.py:122: update_interval <= timedelta(seconds=300)
UsePersistentConnection(interval) == interval <= 300

\* The connection of a cube that has not talked to the gateway yet, and the
\* connection after cube.disconnect: closed.
Disconnected == "Disconnected"
\* The connection while it is open.
Ready == "Ready"

\* __init__.py:108-129: the coordinator right after
\* MaxCubeDataUpdateCoordinator(hass, host, port, interval).
\* The gateways that can be configured, one config entry each, and the
\* config flows that may be in progress at a time.
Entries == {"a", "b"}
Flows == {1, 2}

\* No config entry for the gateway.
NoEntry == [pc |-> "none", created |-> 0, gateway_device |-> FALSE,
            platforms |-> FALSE, disconnect_issued |-> FALSE]

\* A config flow nobody has submitted yet.
NoFlow == [pc |-> "idle", serial |-> "none", opened |-> FALSE,
           disconnect_invoked |-> FALSE, failed |-> "none", result |-> "none"]

\* The host before any flow or setup of the domain.
HostStarted ==
    /\ hass_data = [present |-> FALSE, coordinators |-> {}]
    /\ entries = [e \in Entries |-> NoEntry]
    /\ flows = [f \in Flows |-> NoFlow]

Constructed(interval) ==
    /\ HostStarted
    /\ update_interval = interval
    /\ use_persistent_connection = UsePersistentConnection(interval)
    /\ paired = RfAddresses
    /\ session = Disconnected
    /\ lifecycle = "loaded"
    /\ stop_listener = FALSE
    /\ disconnects = {}
    /\ attempts = [t \in Tasks |-> 0]
    /\ cube = [rf \in RfAddresses |-> NoDevice]
    /\ data = "none"
    /\ snapshot = [rf \in RfAddresses |-> NoDevice]
    /\ lock = NoTask
    /\ waiters = <<>>
    /\ pc = [t \in Tasks |-> "idle"]
    /\ exc = [t \in Tasks |-> "none"]
    /\ upos = [t \in Tasks |-> 0]
    /\ args = [t \in Tasks |-> NoArgs]
    /\ platforms_ready = FALSE
    /\ entity_device = [rf \in RfAddresses |-> None]
    /\ attrs = [rf \in RfAddresses |-> NoAttrs]
    /\ shutter_device = [rf \in RfAddresses |-> None]
    /\ raised = NotRaised
    /\ effect_pending = {}

\* __init__.py:41: async_setup_entry constructs the coordinator with the
\* default interval.
Init == Constructed(DEFAULT_SCAN_INTERVAL)

\* ----------------------------------------------------------- refresh
\* A lock that is granted to every caller at once.
LockAlwaysGranted(t) == TRUE

\* asyncio.Lock.acquire taken by "async with self._update_lock"
\* (__init__.py:137): immediate when the lock is free and nobody queues.
LockFree(t) == lock = NoTask /\ waiters = <<>>

\* Polling starts with the first listener: until the platforms are set up the
\* only refresh is async_config_entry_first_refresh (__init__.py:45).
MayRefresh(t) ==
    \/ platforms_ready /\ lifecycle = "loaded"
    \/ pc[t] = "requesting"
    \/ data = "none" /\ \A u \in Tasks : pc[u] = "idle"

\* __init__.py:131-141: a task (a poll, or a service call that requested a
\* refresh) enters _async_update_data, takes the lock or queues on it, and
\* hands cube.update to the executor.
RefreshCall(t) ==
    /\ pc[t] \in {"idle", "requesting"}
    /\ MayRefresh(t)
    /\ IF LockFree(t)
       THEN /\ lock' = t
            /\ pc' = [pc EXCEPT ![t] = "updating"]
            /\ attempts' = [attempts EXCEPT ![t] = 1]
            /\ UNCHANGED waiters
       ELSE /\ waiters' = Append(waiters, t)
            /\ pc' = [pc EXCEPT ![t] = "waiting"]
            /\ attempts' = [attempts EXCEPT ![t] = 0]
            /\ UNCHANGED lock
    /\ raised' = NotRaised
    /\ UNCHANGED <<cube, data, snapshot, exc, upos, args, effect_pending>>
    /\ UNCHANGED <<entity_vars, config_vars, session, unload_vars, host_vars>>

\* __init__.py:137-141: a queued task is handed the lock and starts the job.
LockAcquired(t) ==
    /\ pc[t] = "waiting"
    /\ lock = t
    /\ pc' = [pc EXCEPT ![t] = "updating"]
    /\ attempts' = [attempts EXCEPT ![t] = attempts[t] + 1]
    /\ raised' = NotRaised
    /\ UNCHANGED <<cube, exc, upos, args, effect_pending>>
    /\ UNCHANGED <<coordinator_vars, entity_vars, config_vars, session, unload_vars, host_vars>>

\* The connection after a call has read from or written to the gateway: the
\* call opens the connection when it finds it closed.
SessionAfterIO == Ready

\* The connection when a call ends: kept open under the persistent policy,
\* closed under the per-call policy.
SessionAfterCall(s) == IF use_persistent_connection THEN s ELSE Disconnected

\* The connection after a call failed: torn down.
SessionAfterFailure == Disconnected

\* What cube.update makes of the device object with radio address rf: the
\* state the gateway reports, or, for an address the gateway no longer
\* reports, the object as it was, no longer in cube.devices.
Reported(rf) ==
    IF rf \in paired THEN DeviceStates(rf)
    ELSE {[cube[rf] EXCEPT !.present = FALSE]}

\* __init__.py:141, on the worker thread: cube.update rewrites the cube's
\* device objects in place, one device of the gateway's dump after the other.
UpdateWrite(t) ==
    /\ pc[t] = "updating"
    /\ upos[t] < NumDevices
    /\ \E dev \in Reported(upos[t] + 1) :
          cube' = [cube EXCEPT ![upos[t] + 1] = dev]
    /\ upos' = [upos EXCEPT ![t] = upos[t] + 1]
    /\ session' = SessionAfterIO
    /\ raised' = NotRaised
    /\ UNCHANGED <<pc, exc, attempts, args, effect_pending>>
    /\ UNCHANGED <<coordinator_vars, entity_vars, config_vars, unload_vars, host_vars>>

\* __init__.py:141: cube.update returns after the whole dump was applied.
UpdateReturn(t) ==
    /\ pc[t] = "updating"
    /\ upos[t] = NumDevices
    /\ pc' = [pc EXCEPT ![t] = "resuming"]
    /\ exc' = [exc EXCEPT ![t] = "none"]
    /\ upos' = [upos EXCEPT ![t] = 0]
    /\ session' = SessionAfterCall(session)
    /\ raised' = NotRaised
    /\ UNCHANGED <<cube, attempts, args, effect_pending>>
    /\ UNCHANGED <<coordinator_vars, entity_vars, config_vars, unload_vars, host_vars>>

\* __init__.py:141: cube.update raises, at any point of the dump.
UpdateRaise(t) ==
    /\ pc[t] = "updating"
    /\ \E e \in Exceptions : exc' = [exc EXCEPT ![t] = e]
    /\ pc' = [pc EXCEPT ![t] = "resuming"]
    /\ upos' = [upos EXCEPT ![t] = 0]
    /\ session' = SessionAfterFailure
    /\ raised' = NotRaised
    /\ UNCHANGED <<cube, attempts, args, effect_pending>>
    /\ UNCHANGED <<coordinator_vars, entity_vars, config_vars, unload_vars, host_vars>>

\* An exception that is passed on as it is.
RawException(e) == [exc |-> e, cause |-> "none"]

\* __init__.py:145-152: what leaves _async_update_data for an exception of the
\* job: "raise UpdateFailed(...) from err" on both branches.
UpdateEscapes(e) ==
    IF e = "TimeoutError" THEN [exc |-> "UpdateFailed", cause |-> e]
    ELSE [exc |-> "UpdateFailed", cause |-> e]

\* A failed update is started again, whatever it raised.
RetriesAlways(e, n) == TRUE

\* __init__.py:145-152: whether _async_update_data starts cube.update again
\* after it raised e on attempt n.  Both except branches raise at once.
Retries(e, n) == FALSE

\* The lock stays with the task that leaves.
LockKept == lock

\* asyncio.Lock.release at the end of "async with" (__init__.py:137): the
\* first queued task gets the lock.
ReleasedLock == IF waiters = <<>> THEN NoTask ELSE Head(waiters)
ReleasedWaiters == IF waiters = <<>> THEN <<>> ELSE Tail(waiters)

\* climate.py:120-133: _handle_coordinator_update of a climate entity,
\* reading coordinator.data, which is the cube.
ClimateDeviceAfterUpdate(c, rf) ==
    IF entity_device[rf] = None THEN None
    ELSE IF device_by_rf(c, entity_device[rf]) # None
         THEN device_by_rf(c, entity_device[rf])
         ELSE entity_device[rf]

\* The entity keeps the attributes it had.
StaleAttrs(c, rf) == attrs[rf]

ClimateAttrsAfterUpdate(c, rf) ==
    IF entity_device[rf] = None THEN attrs[rf]
    ELSE IF device_by_rf(c, entity_device[rf]) # None
         THEN _update_attrs(c, c[device_by_rf(c, entity_device[rf])])
         ELSE attrs[rf]

\* binary_sensor.py:70-80
ShutterDeviceAfterUpdate(c, rf) ==
    IF shutter_device[rf] = None THEN None
    ELSE IF device_by_rf(c, shutter_device[rf]) # None
         THEN device_by_rf(c, shutter_device[rf])
         ELSE shutter_device[rf]

\* __init__.py:137-152, back on the event loop: the lock is released; on
\* success the cube is returned, becomes coordinator.data and the listeners
\* run; on failure UpdateFailed is raised and coordinator.data stays.
RefreshResume(t) ==
    /\ pc[t] = "resuming"
    /\ exc' = [exc EXCEPT ![t] = "none"]
    /\ IF exc[t] # "none" /\ Retries(exc[t], attempts[t])
       THEN /\ pc' = [pc EXCEPT ![t] = "updating"]
            /\ attempts' = [attempts EXCEPT ![t] = attempts[t] + 1]
            /\ raised' = NotRaised
            /\ UNCHANGED <<lock, waiters, data, snapshot, entity_device, attrs,
                           shutter_device, effect_pending>>
       ELSE /\ lock' = ReleasedLock
            /\ waiters' = ReleasedWaiters
            /\ pc' = [pc EXCEPT ![t] = "idle"]
            /\ attempts' = [attempts EXCEPT ![t] = 0]
            /\ IF exc[t] = "none"
               THEN /\ data' = "cube"
                    /\ snapshot' = cube
                    /\ entity_device' =
                          [rf \in RfAddresses |-> ClimateDeviceAfterUpdate(cube, rf)]
                    /\ attrs' =
                          [rf \in RfAddresses |-> ClimateAttrsAfterUpdate(cube, rf)]
                    /\ shutter_device' =
                          [rf \in RfAddresses |-> ShutterDeviceAfterUpdate(cube, rf)]
                    /\ effect_pending' = {}
                    /\ raised' = NotRaised
               ELSE /\ raised' = [from |-> "_async_update_data",
                                    exc |-> UpdateEscapes(exc[t]).exc,
                                    cause |-> UpdateEscapes(exc[t]).cause]
                    /\ UNCHANGED <<data, snapshot, entity_device, attrs,
                                   shutter_device, effect_pending>>
    /\ UNCHANGED <<cube, upos, args, platforms_ready, session>>
    /\ UNCHANGED <<config_vars, unload_vars, host_vars>>

\* ------------------------------------------------------------- setup
\* Every device gets a climate entity.
AnyDevice(dev) == TRUE

\* climate.py:84-88: devices that get a climate entity.
ClimateCapable(dev) == is_thermostat(dev) \/ is_wallthermostat(dev)

\* climate.py:73-91, 107-118 and binary_sensor.py:27-50, 60-68: the platforms
\* create their entities from cube.devices (__init__.py:66), and the stop
\* listener is registered (__init__.py:68-78).
PlatformSetup ==
    /\ ~platforms_ready
    /\ data = "cube"
    /\ \A t \in Tasks : pc[t] = "idle"
    /\ platforms_ready' = TRUE
    /\ entity_device' = [rf \in RfAddresses |->
          IF cube[rf].present /\ ClimateCapable(cube[rf]) THEN rf ELSE None]
    /\ attrs' = [rf \in RfAddresses |->
          IF cube[rf].present /\ ClimateCapable(cube[rf])
          THEN _update_attrs(cube, cube[rf]) ELSE NoAttrs]
    /\ shutter_device' = [rf \in RfAddresses |->
          IF cube[rf].present /\ is_windowshutter(cube[rf]) THEN rf ELSE None]
    /\ raised' = NotRaised
    /\ stop_listener' = TRUE
    /\ UNCHANGED <<cube, pc, exc, upos, attempts, args, effect_pending>>
    /\ UNCHANGED <<coordinator_vars, config_vars, session, lifecycle, disconnects,
                   host_vars>>

\* ---------------------------------------------------------- commands
\* What a service handler does: send a command, raise, or just return.
Send(temperature, mode) ==
    [kind |-> "send", temperature |-> temperature, mode |-> mode, exc |-> "none"]
Raise(e) == [kind |-> "raise", temperature |-> None, mode |-> None, exc |-> e]
Return == [kind |-> "return", temperature |-> None, mode |-> None, exc |-> "none"]

\* Inputs of the service calls ("cool" and "sleep" are not supported).
HvacModeInputs == {HVAC_OFF, HVAC_HEAT, HVAC_AUTO, "cool"}
PresetInputs == {PRESET_COMFORT, PRESET_BOOST, "sleep"}
TemperatureInputs == {None, 62}

\* climate.py:245-262; max(None, min_temp) is a TypeError.
async_set_hvac_mode(dev, att, hvac_mode) ==
    IF hvac_mode = HVAC_OFF THEN Send(OFF_TEMPERATURE, MAX_DEVICE_MODE_MANUAL)
    ELSE IF hvac_mode = HVAC_HEAT
         THEN LET current_target == att.target_temperature
                  temp == IF current_target # None /\ current_target > OFF_TEMPERATURE
                          THEN current_target ELSE dev.comfort_temperature
              IN IF temp = None THEN Raise("TypeError")
                 ELSE Send(Max2(temp, min_temp(dev)), MAX_DEVICE_MODE_MANUAL)
    ELSE IF hvac_mode = HVAC_AUTO THEN Send(None, MAX_DEVICE_MODE_AUTOMATIC)
    ELSE Return

\* climate.py:264-291
async_set_preset_mode(dev, preset_mode) ==
    IF preset_mode = PRESET_BOOST THEN Send(None, MAX_DEVICE_MODE_BOOST)
    ELSE IF preset_mode = PRESET_AWAY THEN Send(None, MAX_DEVICE_MODE_VACATION)
    ELSE IF preset_mode = PRESET_COMFORT
         THEN Send(dev.comfort_temperature, MAX_DEVICE_MODE_MANUAL)
    ELSE IF preset_mode = PRESET_ECO
         THEN Send(dev.eco_temperature, MAX_DEVICE_MODE_MANUAL)
    ELSE IF preset_mode = PRESET_ON THEN Send(ON_TEMPERATURE, MAX_DEVICE_MODE_MANUAL)
    ELSE Return

\* climate.py:293-305
async_set_temperature(dev, temp) ==
    IF temp = None THEN Return
    ELSE Send(Max2(min_temp(dev), Min2(max_temp(dev), temp)), MAX_DEVICE_MODE_MANUAL)

\* climate.py:307-319: _async_set_temperature_mode hands
\* cube.set_temperature_mode(self._device, temperature, mode) to the executor;
\* it takes no lock.  A handler that raises or returns before sends nothing.
Dispatch(t, rf, cmd, request) ==
    /\ IF cmd.kind = "send"
       THEN /\ pc' = [pc EXCEPT ![t] = "sending"]
            /\ args' = [args EXCEPT ![t] = [device |-> entity_device[rf],
                                            temperature |-> cmd.temperature,
                                            mode |-> cmd.mode,
                                            request |-> request]]
            /\ raised' = NotRaised
       ELSE IF cmd.kind = "raise"
       THEN /\ raised' = [from |-> "handler", exc |-> cmd.exc, cause |-> "none"]
            /\ UNCHANGED <<pc, args>>
       ELSE /\ raised' = NotRaised
            /\ UNCHANGED <<pc, args>>
    /\ UNCHANGED <<cube, exc, upos, attempts, effect_pending>>
    /\ UNCHANGED <<coordinator_vars, entity_vars, config_vars, session, unload_vars, host_vars>>

\* The climate entities a service call can address: those of a loaded entry
\* (async_unload_platforms removes them, __init__.py:89).
ClimateEntities ==
    IF lifecycle = "loaded" THEN {rf \in RfAddresses : entity_device[rf] # None}
    ELSE {}

SetHvacMode(t) ==
    /\ pc[t] = "idle"
    /\ \E rf \in ClimateEntities : \E hvac_mode \in HvacModeInputs :
          Dispatch(t, rf, async_set_hvac_mode(cube[entity_device[rf]], attrs[rf], hvac_mode),
                   hvac_mode)

SetPresetMode(t) ==
    /\ pc[t] = "idle"
    /\ \E rf \in ClimateEntities : \E preset_mode \in PresetInputs :
          Dispatch(t, rf, async_set_preset_mode(cube[entity_device[rf]], preset_mode),
                   NoHvacMode)

SetTemperature(t) ==
    /\ pc[t] = "idle"
    /\ \E rf \in ClimateEntities : \E temp \in TemperatureInputs :
          Dispatch(t, rf, async_set_temperature(cube[entity_device[rf]], temp),
                   NoHvacMode)

\* climate.py:317-319, on the worker thread: cube.set_temperature_mode returns.
CommandReturn(t) ==
    /\ pc[t] = "sending"
    /\ pc' = [pc EXCEPT ![t] = "sent"]
    /\ exc' = [exc EXCEPT ![t] = "none"]
    /\ args' = [args EXCEPT ![t] = NoArgs]
    /\ effect_pending' = effect_pending \cup {args[t].device}
    /\ session' = SessionAfterCall(SessionAfterIO)
    /\ raised' = NotRaised
    /\ UNCHANGED <<cube, upos, attempts>>
    /\ UNCHANGED <<coordinator_vars, entity_vars, config_vars, unload_vars, host_vars>>

\* climate.py:317-319: cube.set_temperature_mode raises.
CommandRaise(t) ==
    /\ pc[t] = "sending"
    /\ \E e \in Exceptions : exc' = [exc EXCEPT ![t] = e]
    /\ pc' = [pc EXCEPT ![t] = "sent"]
    /\ args' = [args EXCEPT ![t] = NoArgs]
    /\ session' = SessionAfterFailure
    /\ raised' = NotRaised
    /\ UNCHANGED <<cube, upos, attempts, effect_pending>>
    /\ UNCHANGED <<coordinator_vars, entity_vars, config_vars, unload_vars, host_vars>>

\* climate.py:322-328: what leaves _async_set_temperature_mode for an
\* exception of the job: "raise HomeAssistantError(...) from err" on both
\* branches.
CommandEscapes(e) ==
    IF e \in {"TimeoutError", "OSError", "ConnectionError"}
    THEN [exc |-> "HomeAssistantError", cause |-> e]
    ELSE [exc |-> "HomeAssistantError", cause |-> e]

\* A command that always goes on to request a refresh.
AlwaysRequests(e) == "requesting"

\* A command that never requests a refresh.
NeverRequests(e) == "idle"

\* climate.py:315-328: where _async_set_temperature_mode goes once the job is
\* done: on to "await self.coordinator.async_request_refresh()", or out with
\* the exception.
AfterCommand(e) == IF e = "none" THEN "requesting" ELSE "idle"

\* climate.py:315-328, back on the event loop.
CommandResume(t) ==
    /\ pc[t] = "sent"
    /\ pc' = [pc EXCEPT ![t] = AfterCommand(exc[t])]
    /\ exc' = [exc EXCEPT ![t] = "none"]
    /\ raised' = IF exc[t] = "none" THEN NotRaised
                 ELSE [from |-> "_async_set_temperature_mode",
                       exc |-> CommandEscapes(exc[t]).exc,
                       cause |-> CommandEscapes(exc[t]).cause]
    /\ UNCHANGED <<cube, upos, attempts, args, effect_pending>>
    /\ UNCHANGED <<coordinator_vars, entity_vars, config_vars, session, unload_vars, host_vars>>

\* ------------------------------------------------------ specification
Next ==
    \/ \E t \in Tasks : RefreshCall(t)
    \/ \E t \in Tasks : LockAcquired(t)
    \/ \E t \in Tasks : UpdateWrite(t)
    \/ \E t \in Tasks : UpdateReturn(t)
    \/ \E t \in Tasks : UpdateRaise(t)
    \/ \E t \in Tasks : RefreshResume(t)
    \/ PlatformSetup
    \/ \E t \in Tasks : SetHvacMode(t)
    \/ \E t \in Tasks : SetPresetMode(t)
    \/ \E t \in Tasks : SetTemperature(t)
    \/ \E t \in Tasks : CommandReturn(t)
    \/ \E t \in Tasks : CommandRaise(t)
    \/ \E t \in Tasks : CommandResume(t)

Spec == Init /\ [][Next]_vars

\* ------------------------------------------- construction and first refresh
\* The update intervals a coordinator is constructed with, in seconds.
Intervals == {DEFAULT_SCAN_INTERVAL, 299, 300, 301, 600}

ConstructInit == \E interval \in Intervals : Constructed(interval)

\* __init__.py:45: async_config_entry_first_refresh, under either policy.
FirstRefreshNext ==
    \/ \E t \in Tasks : RefreshCall(t)
    \/ \E t \in Tasks : UpdateWrite(t)
    \/ \E t \in Tasks : UpdateReturn(t)
    \/ \E t \in Tasks : UpdateRaise(t)
    \/ \E t \in Tasks : RefreshResume(t)

ConstructSpec == ConstructInit /\ [][FirstRefreshNext]_vars

\* ------------------------------------------- one entity, command by command
\* The temperatures a thermostat may hold: unset, 4.5, 17, 21 and 30.5 C.
ThermostatTemperatures == {None, OFF_TEMPERATURE, 34, 42, ON_TEMPERATURE}

\* Every state of the thermostat within these values.
ThermostatStates ==
    { Device(1, mode, target, comfort, eco, valve, FALSE) :
        mode \in {MAX_DEVICE_MODE_AUTOMATIC, MAX_DEVICE_MODE_MANUAL,
                  MAX_DEVICE_MODE_VACATION, MAX_DEVICE_MODE_BOOST},
        target \in ThermostatTemperatures,
        comfort \in ThermostatTemperatures,
        eco \in {None, 34, ON_TEMPERATURE},
        valve \in {0, 40} }

\* The cube with the thermostat in state dev and the other devices as reported.
CubeWith(dev) ==
    [rf \in RfAddresses |->
        IF rf = 1 THEN dev ELSE CHOOSE d \in DeviceStates(rf) : TRUE]

\* A loaded entry after a refresh (__init__.py:33-83, climate.py:73-91,
\* 107-118): the entities hold the devices of the cube and the attributes
\* _update_attrs derives from them.
EntityLoaded(states) ==
    /\ HostStarted
    /\ \E dev \in states : cube = CubeWith(dev)
    /\ snapshot = cube
    /\ data = "cube"
    /\ update_interval = DEFAULT_SCAN_INTERVAL
    /\ use_persistent_connection = UsePersistentConnection(DEFAULT_SCAN_INTERVAL)
    /\ paired = RfAddresses
    /\ session = Ready
    /\ lifecycle = "loaded"
    /\ stop_listener = TRUE
    /\ disconnects = {}
    /\ attempts = [t \in Tasks |-> 0]
    /\ lock = NoTask
    /\ waiters = <<>>
    /\ pc = [t \in Tasks |-> "idle"]
    /\ exc = [t \in Tasks |-> "none"]
    /\ upos = [t \in Tasks |-> 0]
    /\ args = [t \in Tasks |-> NoArgs]
    /\ platforms_ready = TRUE
    /\ entity_device = [rf \in RfAddresses |->
          IF ClimateCapable(cube[rf]) THEN rf ELSE None]
    /\ attrs = [rf \in RfAddresses |->
          IF ClimateCapable(cube[rf]) THEN _update_attrs(cube, cube[rf]) ELSE NoAttrs]
    /\ shutter_device = [rf \in RfAddresses |->
          IF is_windowshutter(cube[rf]) THEN rf ELSE None]
    /\ raised = NotRaised
    /\ effect_pending = {}

EntityInit == EntityLoaded(ThermostatStates)

\* climate.py:245-262: one service call at a time sets the hvac mode.
HvacModeCall(t) ==
    /\ \A u \in Tasks : pc[u] = "idle"
    /\ SetHvacMode(t)

\* What the device is once the gateway has applied the command: the mode that
\* was sent, and the temperature that was sent if one was.
Applied(dev, sent) ==
    [dev EXCEPT !.mode = sent.mode,
                !.target_temperature =
                    IF sent.temperature = None THEN @ ELSE sent.temperature]

\* climate.py:120-133: the refresh after the command, in which the gateway
\* reports exactly what was sent; the entities take their attributes from it.
ReadBack(t) ==
    /\ pc[t] = "sending"
    /\ cube' = [cube EXCEPT ![args[t].device] = Applied(@, args[t])]
    /\ snapshot' = cube'
    /\ attrs' = [rf \in RfAddresses |-> ClimateAttrsAfterUpdate(cube', rf)]
    /\ pc' = [pc EXCEPT ![t] = "read_back"]
    /\ raised' = NotRaised
    /\ UNCHANGED <<data, lock, waiters, exc, upos, attempts, args, platforms_ready,
                   entity_device, shutter_device, effect_pending, session>>
    /\ UNCHANGED <<config_vars, unload_vars, host_vars>>

\* The service call is over.
RoundTripDone(t) ==
    /\ pc[t] = "read_back"
    /\ pc' = [pc EXCEPT ![t] = "idle"]
    /\ args' = [args EXCEPT ![t] = NoArgs]
    /\ raised' = NotRaised
    /\ UNCHANGED <<cube, data, snapshot, lock, waiters, exc, upos, attempts,
                   effect_pending, session>>
    /\ UNCHANGED <<entity_vars, config_vars, unload_vars, host_vars>>

EntityNext ==
    \/ \E t \in Tasks : HvacModeCall(t)
    \/ \E t \in Tasks : ReadBack(t)
    \/ \E t \in Tasks : RoundTripDone(t)

EntitySpec == EntityInit /\ [][EntityNext]_vars

\* ------------------------------------------- presets and set temperature
\* The limits a thermostat may be configured with (None: not reported).
ClampLimits == {None, OFF_TEMPERATURE, 34, ON_TEMPERATURE}

\* A manual thermostat at 21.0 with every pair of configured limits whose
\* minimum is not above its maximum.
ClampStates ==
    { [Device(1, MAX_DEVICE_MODE_MANUAL, 42, 42, 34, 0, FALSE)
          EXCEPT !.min_temperature = mn, !.max_temperature = mx] :
        <<mn, mx>> \in { lim \in ClampLimits \X ClampLimits :
                            lim[1] = None \/ lim[2] = None \/ lim[1] <= lim[2] } }

ServiceInit == EntityLoaded(ThermostatStates \cup ClampStates)

\* The presets a service call may name ("sleep" is not supported), and the
\* temperatures it may ask for (None: no temperature given).
AllPresetInputs == SUPPORT_PRESETS \cup {"sleep"}
ClampInputs == {None, 8, OFF_TEMPERATURE, MIN_TEMPERATURE, 42, MAX_TEMPERATURE,
                ON_TEMPERATURE, 62}

\* climate.py:264-291: one service call at a time sets a preset.
PresetCall(t) ==
    /\ \A u \in Tasks : pc[u] = "idle"
    /\ \E rf \in ClimateEntities : \E preset_mode \in AllPresetInputs :
          Dispatch(t, rf, async_set_preset_mode(cube[entity_device[rf]], preset_mode),
                   preset_mode)

\* climate.py:293-305: one service call at a time sets the temperature.
TemperatureCall(t) ==
    /\ \A u \in Tasks : pc[u] = "idle"
    /\ \E rf \in ClimateEntities : \E temp \in ClampInputs :
          Dispatch(t, rf, async_set_temperature(cube[entity_device[rf]], temp),
                   "set_temperature")

ServiceNext ==
    \/ \E t \in Tasks : PresetCall(t)
    \/ \E t \in Tasks : TemperatureCall(t)
    \/ \E t \in Tasks : ReadBack(t)
    \/ \E t \in Tasks : RoundTripDone(t)

ServiceSpec == ServiceInit /\ [][ServiceNext]_vars


\* ------------------------------------------- pairing at the gateway
\* The devices whose pairing changes: the radiator thermostat and the window
\* shutter.
Pairable == {1, 3}

\* A device is removed from the gateway, or paired with it (again); the next
\* dump reports the change.
GatewayPairing ==
    /\ \E rf \in Pairable :
          paired' = IF rf \in paired THEN paired \ {rf} ELSE paired \cup {rf}
    /\ raised' = NotRaised
    /\ UNCHANGED <<cube, pc, exc, upos, attempts, args, effect_pending,
                   update_interval, use_persistent_connection, session>>
    /\ UNCHANGED <<coordinator_vars, entity_vars, unload_vars, host_vars>>

\* The polling side of the program with the gateway's pairing changing.
PairingNext ==
    \/ \E t \in Tasks : RefreshCall(t)
    \/ \E t \in Tasks : LockAcquired(t)
    \/ \E t \in Tasks : UpdateWrite(t)
    \/ \E t \in Tasks : UpdateReturn(t)
    \/ \E t \in Tasks : UpdateRaise(t)
    \/ \E t \in Tasks : RefreshResume(t)
    \/ PlatformSetup
    \/ GatewayPairing

PairingSpec == Init /\ [][PairingNext]_vars

\* ------------------------------------------- unload and host stop
\* __init__.py:86-95: async_unload_entry unloads the platforms (the entities
\* and the polling go) and hands cube.disconnect to the executor, awaiting it.
UnloadEntry ==
    /\ lifecycle = "loaded"
    /\ platforms_ready
    /\ lifecycle' = "unloading"
    /\ disconnects' = disconnects \cup {"async_unload_entry"}
    /\ raised' = NotRaised
    /\ UNCHANGED <<cube, pc, exc, upos, attempts, args, effect_pending, session,
                   stop_listener>>
    /\ UNCHANGED <<coordinator_vars, entity_vars, config_vars, host_vars>>

\* __init__.py:74, 95, 161, on a worker thread: cube.disconnect closes the
\* connection; it takes no lock.
DisconnectJob ==
    /\ \E job \in disconnects : disconnects' = disconnects \ {job}
    /\ session' = Disconnected
    /\ raised' = NotRaised
    /\ UNCHANGED <<cube, pc, exc, upos, attempts, args, effect_pending, lifecycle,
                   stop_listener>>
    /\ UNCHANGED <<coordinator_vars, entity_vars, config_vars, host_vars>>

\* __init__.py:95-100, then the entry's on-unload callbacks (__init__.py:76-80):
\* the stop listener is removed and coordinator.async_unload
\* (__init__.py:154-161) hands cube.disconnect to the executor once more,
\* without awaiting it.
UnloadResume ==
    /\ lifecycle = "unloading"
    /\ "async_unload_entry" \notin disconnects
    /\ lifecycle' = "unloaded"
    /\ stop_listener' = FALSE
    /\ disconnects' = disconnects \cup {"async_unload"}
    /\ raised' = NotRaised
    /\ UNCHANGED <<cube, pc, exc, upos, attempts, args, effect_pending, session>>
    /\ UNCHANGED <<coordinator_vars, entity_vars, config_vars, host_vars>>

\* __init__.py:69-78: the host stops; the listener, registered once, hands
\* cube.disconnect to the executor.
HostStop ==
    /\ stop_listener
    /\ stop_listener' = FALSE
    /\ disconnects' = disconnects \cup {"_async_disconnect"}
    /\ raised' = NotRaised
    /\ UNCHANGED <<cube, pc, exc, upos, attempts, args, effect_pending, session,
                   lifecycle>>
    /\ UNCHANGED <<coordinator_vars, entity_vars, config_vars, host_vars>>

LifecycleNext ==
    \/ Next
    \/ UnloadEntry
    \/ DisconnectJob
    \/ UnloadResume
    \/ HostStop

LifecycleSpec == Init /\ [][LifecycleNext]_vars

\* ------------------------------------------- polling alone, with progress
RefreshNext ==
    \/ \E t \in Tasks : RefreshCall(t)
    \/ \E t \in Tasks : LockAcquired(t)
    \/ \E t \in Tasks : UpdateWrite(t)
    \/ \E t \in Tasks : UpdateReturn(t)
    \/ \E t \in Tasks : UpdateRaise(t)
    \/ \E t \in Tasks : RefreshResume(t)
    \/ PlatformSetup

\* Every cube.update job on a worker thread goes on until it returns or
\* raises, and the event loop runs every task that is ready: the one handed
\* the lock, the one whose job is done.
RefreshFairSpec ==
    /\ Init
    /\ [][RefreshNext]_vars
    /\ \A t \in Tasks :
          /\ WF_vars(LockAcquired(t))
          /\ WF_vars(UpdateWrite(t) \/ UpdateReturn(t) \/ UpdateRaise(t))
          /\ WF_vars(RefreshResume(t))

\* ------------------------------------------- entries of the domain
\* The config entry of a gateway as a finished flow creates it: not loaded.
CreatedEntry(e) == [entries[e] EXCEPT !.pc = "not_loaded", !.created = @ + 1]

\* A flow has finished and the host has added the entry.
EntryCreated(e) ==
    /\ entries[e].pc = "none"
    /\ entries' = [entries EXCEPT ![e] = CreatedEntry(e)]
    /\ UNCHANGED <<hass_data, flows>>
    /\ UNCHANGED program_vars

\* __init__.py:33-45: async_setup_entry constructs the coordinator and awaits
\* the first refresh.
SetupStart(e) ==
    /\ entries[e].pc \in {"not_loaded", "setup_retry"}
    /\ entries' = [entries EXCEPT ![e].pc = "first_refresh",
                                  ![e].disconnect_issued = FALSE]
    /\ UNCHANGED <<hass_data, flows>>
    /\ UNCHANGED program_vars

\* __init__.py:45: the first refresh fails, ConfigEntryNotReady leaves
\* async_setup_entry.
SetupRefreshFailed(e) ==
    /\ entries[e].pc = "first_refresh"
    /\ entries' = [entries EXCEPT ![e].pc = "setup_retry"]
    /\ UNCHANGED <<hass_data, flows>>
    /\ UNCHANGED program_vars

\* __init__.py:48-66: the coordinator is stored under DOMAIN, the gateway
\* device is registered, and the platform setups are awaited.
SetupRefreshed(e) ==
    /\ entries[e].pc = "first_refresh"
    /\ hass_data' = [present |-> TRUE,
                     coordinators |-> hass_data.coordinators \cup {e}]
    /\ entries' = [entries EXCEPT ![e].pc = "forwarding",
                                  ![e].gateway_device = TRUE]
    /\ UNCHANGED flows
    /\ UNCHANGED program_vars

\* __init__.py:66-83: the platforms are set up, the unload callbacks are
\* registered, async_setup_entry returns True.
SetupDone(e) ==
    /\ entries[e].pc = "forwarding"
    /\ entries' = [entries EXCEPT ![e].pc = "loaded", ![e].platforms = TRUE]
    /\ UNCHANGED <<hass_data, flows>>
    /\ UNCHANGED program_vars

\* __init__.py:86-89: async_unload_entry awaits async_unload_platforms.
UnloadStart(e) ==
    /\ entries[e].pc = "loaded"
    /\ entries' = [entries EXCEPT ![e].pc = "unloading"]
    /\ UNCHANGED <<hass_data, flows>>
    /\ UNCHANGED program_vars

\* __init__.py:89-100: the platforms do not unload; unload_ok is False and is
\* returned.
UnloadPlatformsFailed(e) ==
    /\ entries[e].pc = "unloading"
    /\ entries' = [entries EXCEPT ![e].pc = "failed_unload"]
    /\ UNCHANGED <<hass_data, flows>>
    /\ UNCHANGED program_vars

\* __init__.py:89-95: the platforms are unloaded; hass.data[DOMAIN].pop takes
\* the coordinator out (a KeyError without the DOMAIN key), and
\* cube.disconnect is handed to the executor and awaited.
UnloadPlatformsDone(e) ==
    /\ entries[e].pc = "unloading"
    /\ IF hass_data.present /\ e \in hass_data.coordinators
       THEN /\ hass_data' = [hass_data EXCEPT !.coordinators = @ \ {e}]
            /\ entries' = [entries EXCEPT ![e].pc = "disconnecting",
                                          ![e].platforms = FALSE,
                                          ![e].disconnect_issued = TRUE]
       ELSE /\ entries' = [entries EXCEPT ![e].pc = "failed_unload",
                                          ![e].platforms = FALSE]
            /\ UNCHANGED hass_data
    /\ UNCHANGED flows
    /\ UNCHANGED program_vars

\* The DOMAIN key goes with its last coordinator.
DomainCleanedUp ==
    IF hass_data.coordinators = {}
    THEN [present |-> FALSE, coordinators |-> {}]
    ELSE hass_data

\* __init__.py:95-100: the disconnect is done; "if not hass.data[DOMAIN]"
\* (a KeyError without the DOMAIN key) pops an empty DOMAIN, and
\* async_unload_entry returns True.
UnloadDone(e) ==
    /\ entries[e].pc = "disconnecting"
    /\ IF hass_data.present
       THEN /\ hass_data' = DomainCleanedUp
            /\ entries' = [entries EXCEPT ![e].pc = "not_loaded"]
       ELSE /\ entries' = [entries EXCEPT ![e].pc = "failed_unload"]
            /\ UNCHANGED hass_data
    /\ UNCHANGED flows
    /\ UNCHANGED program_vars

EntriesNext ==
    \/ \E e \in Entries : EntryCreated(e)
    \/ \E e \in Entries : SetupStart(e)
    \/ \E e \in Entries : SetupRefreshFailed(e)
    \/ \E e \in Entries : SetupRefreshed(e)
    \/ \E e \in Entries : SetupDone(e)
    \/ \E e \in Entries : UnloadStart(e)
    \/ \E e \in Entries : UnloadPlatformsFailed(e)
    \/ \E e \in Entries : UnloadPlatformsDone(e)
    \/ \E e \in Entries : UnloadDone(e)

EntriesSpec == Init /\ [][EntriesNext]_vars

\* ------------------------------------------- config flow
\* config_flow.py:40-45: what leaves validate_input for an exception of the
\* connect or of the disconnect job: "raise CannotConnect from exc" on both
\* branches.
ValidateEscapes(e) ==
    IF e = "TimeoutError" THEN "CannotConnect" ELSE "CannotConnect"

\* config_flow.py:70-75: the error the form shows for an exception of the step.
StepError(e) == IF e = "CannotConnect" THEN "cannot_connect" ELSE "unknown"

\* No gateway counts as configured.
NeverConfigured(g) == FALSE

\* config_flow.py:66-67: _abort_if_unique_id_configured finds an entry with
\* the gateway's serial.
AlreadyConfigured(g) == entries[g].pc # "none"

\* config_flow.py:57-64, 26-36: the user submits the form with the address of
\* a gateway; validate_input hands the MaxCube constructor, which connects, to
\* the executor.
FlowSubmit(f) ==
    /\ flows[f].pc \in {"idle", "form"}
    /\ \E g \in Entries :
          flows' = [flows EXCEPT ![f] = [NoFlow EXCEPT !.pc = "connecting",
                                                       !.serial = g]]
    /\ UNCHANGED <<hass_data, entries>>
    /\ UNCHANGED program_vars

\* config_flow.py:36-38: the constructor returned a connected cube;
\* cube.disconnect is handed to the executor.
FlowConnected(f) ==
    /\ flows[f].pc = "connecting"
    /\ flows' = [flows EXCEPT ![f].pc = "disconnecting", ![f].opened = TRUE]
    /\ UNCHANGED <<hass_data, entries>>
    /\ UNCHANGED program_vars

\* config_flow.py:36, 40-45, 70-80: the constructor raised; the form is shown
\* again.
FlowConnectFailed(f) ==
    /\ flows[f].pc = "connecting"
    /\ \E e \in Exceptions :
          flows' = [flows EXCEPT ![f].pc = "form",
                                 ![f].failed = "connect",
                                 ![f].result = StepError(ValidateEscapes(e))]
    /\ UNCHANGED <<hass_data, entries>>
    /\ UNCHANGED program_vars

\* config_flow.py:38, 40-45, 70-80: cube.disconnect raised; the form is shown
\* again.
FlowDisconnectFailed(f) ==
    /\ flows[f].pc = "disconnecting"
    /\ \E e \in Exceptions :
          flows' = [flows EXCEPT ![f].pc = "form",
                                 ![f].disconnect_invoked = TRUE,
                                 ![f].failed = "disconnect",
                                 ![f].result = StepError(ValidateEscapes(e))]
    /\ UNCHANGED <<hass_data, entries>>
    /\ UNCHANGED program_vars

\* config_flow.py:38, 49, 64-66: cube.disconnect returned, validate_input
\* returns the serial, and async_set_unique_id is awaited.
FlowDisconnected(f) ==
    /\ flows[f].pc = "disconnecting"
    /\ flows' = [flows EXCEPT ![f].pc = "unique_id",
                              ![f].disconnect_invoked = TRUE]
    /\ UNCHANGED <<hass_data, entries>>
    /\ UNCHANGED program_vars

\* config_flow.py:67-80: a configured serial raises AbortFlow, which the
\* "except Exception" of the step turns into the form; otherwise the entry is
\* created.
FlowFinish(f) ==
    /\ flows[f].pc = "unique_id"
    /\ IF AlreadyConfigured(flows[f].serial)
       THEN /\ flows' = [flows EXCEPT ![f].pc = "form",
                                      ![f].result = StepError("AbortFlow")]
            /\ UNCHANGED entries
       ELSE /\ flows' = [flows EXCEPT ![f].pc = "done",
                                      ![f].result = "create_entry"]
            /\ entries' = [entries EXCEPT
                              ![flows[f].serial] = CreatedEntry(flows[f].serial)]
    /\ UNCHANGED hass_data
    /\ UNCHANGED program_vars

FlowNext ==
    \/ \E f \in Flows : FlowSubmit(f)
    \/ \E f \in Flows : FlowConnected(f)
    \/ \E f \in Flows : FlowConnectFailed(f)
    \/ \E f \in Flows : FlowDisconnectFailed(f)
    \/ \E f \in Flows : FlowDisconnected(f)
    \/ \E f \in Flows : FlowFinish(f)

FlowSpec == Init /\ [][FlowNext]_vars

\* ---------------------------------------------------------- properties
\* C1: a refresh (cube.update) and a command (cube.set_temperature_mode) are
\* never both in progress on the cube at the same time.
C1_NoRefreshDuringCommand ==
    ~(\E t \in Tasks : \E u \in Tasks : pc[t] = "updating" /\ pc[u] = "sending")

\* C2: at most one cube.update is executing at any time, and the task whose
\* update is executing or has just finished holds the update lock.
C2_OneRefreshAtATime ==
    /\ Cardinality({t \in Tasks : pc[t] = "updating"}) <= 1
    /\ \A t \in Tasks : pc[t] \in {"updating", "resuming"} => lock = t

\* C2 happens: one caller runs cube.update while another waits for the lock.
C2_Witness ==
    \E t \in Tasks : \E u \in Tasks : pc[t] = "updating" /\ pc[u] = "waiting"

\* C3: the snapshot handed to the entities (coordinator.data) is not changed
\* by a later refresh: what readers on the event loop see is what was delivered.
C3_SnapshotNeverRewritten ==
    data = "cube" => cube = snapshot

\* C4: after a failed refresh the snapshot visible to the entities has exactly
\* the device fields of the last successful refresh.
C4_FailedRefreshKeepsSnapshot ==
    (raised.from = "_async_update_data" /\ data = "cube") => cube = snapshot

\* C5: a command whose cube.set_temperature_mode raises is reported as
\* HomeAssistantError, requests no refresh, and none of its steps (dispatch,
\* the failing job, the report) changes an entity's cached attributes, an
\* entity's device reference or a device.
C5_FailedCommandChangesNothing ==
    [][\A t \in Tasks :
          /\ (pc[t] = "idle" /\ pc'[t] = "sending")
                => (attrs' = attrs /\ entity_device' = entity_device /\ cube' = cube)
          /\ (pc[t] = "sending" /\ pc'[t] = "sent" /\ exc'[t] # "none")
                => (attrs' = attrs /\ entity_device' = entity_device /\ cube' = cube)
          /\ (pc[t] = "sent" /\ exc[t] # "none" /\ pc'[t] # "sent")
                => /\ pc'[t] = "idle"
                   /\ raised'.from = "_async_set_temperature_mode"
                   /\ raised'.exc = "HomeAssistantError"
                   /\ attrs' = attrs
                   /\ entity_device' = entity_device
                   /\ cube' = cube]_vars

\* C5 happens: a failed command has just been reported.
C5_Witness ==
    /\ raised.from = "_async_set_temperature_mode"
    /\ raised.exc = "HomeAssistantError"
    /\ \E rf \in ClimateEntities : attrs[rf] # NoAttrs

\* C6: whatever cube.update raises leaves _async_update_data as UpdateFailed
\* carrying the cause, and whatever cube.set_temperature_mode raises leaves
\* _async_set_temperature_mode as HomeAssistantError.
C6_FailuresAreTyped ==
    /\ raised.from = "_async_update_data"
          => (raised.exc = "UpdateFailed" /\ raised.cause \in Exceptions)
    /\ raised.from = "_async_set_temperature_mode"
          => raised.exc = "HomeAssistantError"

\* C6 happens: an exception that is not a timeout has left a refresh.
C6_Witness ==
    raised.from = "_async_update_data" /\ raised.cause = "ValueError"

\* C7: a command whose cube.set_temperature_mode returned goes on to
\* async_request_refresh, and a refresh is requested only by a command whose
\* cube.set_temperature_mode has returned without error.
C7_RefreshRequestedAfterSuccess ==
    [][\A t \in Tasks :
          /\ (pc[t] = "sent" /\ exc[t] = "none" /\ pc'[t] # "sent")
                => pc'[t] = "requesting"
          /\ (pc'[t] = "requesting" /\ pc[t] # "requesting")
                => (pc[t] = "sent" /\ exc[t] = "none")]_vars

\* C7 happens: a command has requested its refresh.
C7_Witness ==
    \E t \in Tasks : pc[t] = "requesting"

\* C8: between a successful command and the next coordinator update callback
\* the commanded entity's cached attributes and its device's mode and target
\* temperature do not change.
C8_NoChangeBeforeCallback ==
    [][\A rf \in effect_pending \cap effect_pending' :
          /\ attrs'[rf] = attrs[rf]
          /\ cube'[rf].mode = cube[rf].mode
          /\ cube'[rf].target_temperature = cube[rf].target_temperature]_vars

\* C9: automatic is sent without a temperature, manual with a temperature in
\* [4.5, 30.5], and only boost and vacation may omit the temperature.
C9_ModeTemperatureRule ==
    \A t \in Tasks : pc[t] = "sending" =>
        /\ args[t].mode = MAX_DEVICE_MODE_AUTOMATIC => args[t].temperature = None
        /\ args[t].mode = MAX_DEVICE_MODE_MANUAL =>
              /\ args[t].temperature # None
              /\ OFF_TEMPERATURE <= args[t].temperature
              /\ args[t].temperature <= ON_TEMPERATURE
        /\ args[t].temperature = None =>
              args[t].mode \in {MAX_DEVICE_MODE_AUTOMATIC, MAX_DEVICE_MODE_BOOST,
                                MAX_DEVICE_MODE_VACATION}

\* C10: cube.set_temperature_mode is only ever called with a thermostat or a
\* wall thermostat.
C10_OnlyThermostatsCommanded ==
    \A t \in Tasks : pc[t] = "sending" =>
        /\ args[t].device \in RfAddresses
        /\ cube[args[t].device].present
        /\ cube[args[t].device].type \in {"thermostat", "wallthermostat"}
        /\ shutter_device[args[t].device] = None

\* C10 happens: a command is being sent while a shutter entity exists.
C10_Witness ==
    /\ \E t \in Tasks : pc[t] = "sending"
    /\ \E rf \in RfAddresses : shutter_device[rf] # None

\* C16: the connection policy is persistent exactly when the update interval
\* is at most 300 seconds, it is persistent for the default interval, and no
\* step changes the interval or the policy once the coordinator is constructed.
C16_PolicyFromInterval ==
    /\ use_persistent_connection <=> (update_interval <= 300)
    /\ update_interval = 30 => use_persistent_connection
    /\ update_interval \in Intervals

\* C16 happens: a coordinator constructed with exactly 300 seconds has refreshed.
C16_Witness ==
    update_interval = 300 /\ use_persistent_connection /\ data = "cube"

\* C19: once the gateway reports what async_set_hvac_mode(m) sent, the
\* entity's hvac_mode is m; OFF is sent as (4.5, manual) and read back with no
\* target temperature and hvac_action off; HEAT is sent with a temperature
\* strictly above 4.5.
C19_HvacModeRoundTrip ==
    \A t \in Tasks : pc[t] = "read_back" =>
        LET sent == args[t]
            att == attrs[sent.device]
        IN /\ sent.request \in {HVAC_OFF, HVAC_HEAT, HVAC_AUTO}
           /\ att.hvac_mode = sent.request
           /\ sent.request = HVAC_OFF =>
                 /\ sent.temperature = 9
                 /\ sent.mode = MAX_DEVICE_MODE_MANUAL
                 /\ att.target_temperature = None
                 /\ att.hvac_action = ACTION_OFF
           /\ sent.request = HVAC_HEAT =>
                 /\ sent.mode = MAX_DEVICE_MODE_MANUAL
                 /\ sent.temperature > 9
           /\ sent.request = HVAC_AUTO =>
                 /\ sent.mode = MAX_DEVICE_MODE_AUTOMATIC
                 /\ sent.temperature = None

\* C19 happens: HEAT was requested of a thermostat that was off and whose
\* comfort temperature is 4.5, and has been read back.
C19_Witness ==
    \E t \in Tasks :
        /\ pc[t] = "read_back"
        /\ args[t].request = HVAC_HEAT
        /\ args[t].device = 1
        /\ cube[1].comfort_temperature = 9
        /\ args[t].temperature = 10

\* C20: the preset of an entity is decided by its device's mode and
\* temperatures alone: boost gives boost, vacation gives away, manual gives
\* comfort, else eco, else on (30.5), else none, and automatic gives none.
C20_PresetTable ==
    \A rf \in RfAddresses : entity_device[rf] # None =>
        LET dev == cube[entity_device[rf]]
            preset == attrs[rf].preset_mode
            manual == dev.mode = MAX_DEVICE_MODE_MANUAL
            target == dev.target_temperature
        IN /\ dev.mode = MAX_DEVICE_MODE_BOOST => preset = "boost"
           /\ dev.mode = MAX_DEVICE_MODE_VACATION => preset = "away"
           /\ dev.mode = MAX_DEVICE_MODE_AUTOMATIC => preset = "none"
           /\ (manual /\ target = dev.comfort_temperature) => preset = "comfort"
           /\ (manual /\ target # dev.comfort_temperature
                      /\ target = dev.eco_temperature) => preset = "eco"
           /\ (manual /\ target # dev.comfort_temperature
                      /\ target # dev.eco_temperature /\ target = 61) => preset = "on"
           /\ (manual /\ target # dev.comfort_temperature
                      /\ target # dev.eco_temperature /\ target # 61) => preset = "none"

\* C20 happens: a manual thermostat whose target is both its comfort and its
\* eco temperature, after a command was read back.
C20_Witness ==
    /\ cube[1].mode = MAX_DEVICE_MODE_MANUAL
    /\ cube[1].target_temperature = 34
    /\ cube[1].comfort_temperature = 34
    /\ cube[1].eco_temperature = 34
    /\ attrs[1].preset_mode = "comfort"
    /\ \E t \in Tasks : pc[t] = "read_back"


\* C11: a climate or shutter entity is bound to one rf address for good, and
\* whenever the snapshot delivered last contains a device with that address,
\* the entity's attributes are the ones computed from that device in that
\* snapshot.
C11_EntityFollowsItsRfAddress ==
    \A rf \in RfAddresses :
        /\ entity_device[rf] \in {None, rf}
        /\ shutter_device[rf] \in {None, rf}
        /\ (entity_device[rf] # None /\ snapshot[rf].present)
              => /\ device_by_rf(snapshot, entity_device[rf]) = rf
                 /\ attrs[rf].hvac_mode = HvacModeOf(snapshot[rf])
                 /\ attrs[rf].hvac_action = HvacActionOf(snapshot, snapshot[rf])
                 /\ attrs[rf].target_temperature = TargetTemperatureOf(snapshot[rf])
                 /\ attrs[rf].preset_mode = _get_current_preset(snapshot[rf])
        /\ (shutter_device[rf] # None /\ snapshot[rf].present)
              => is_windowshutter(snapshot[shutter_device[rf]])

\* A refresh after the setup has been delivered (the shutter that had an
\* entity is gone from it), and the thermostat's entity found its device in it.
C11_Witness ==
    /\ shutter_device[3] = 3
    /\ ~snapshot[3].present
    /\ entity_device[1] = 1
    /\ snapshot[1].present
    /\ attrs[1].target_temperature = TargetTemperatureOf(snapshot[1])

\* C12: after every successful refresh the devices that have entities are
\* exactly the devices in the snapshot: an entity goes with its device, and a
\* device seen for the first time gets its entity.
C12_EntitiesFollowSnapshot ==
    platforms_ready =>
        \A rf \in RfAddresses :
            /\ entity_device[rf] # None => snapshot[rf].present
            /\ shutter_device[rf] # None => snapshot[rf].present
            /\ (snapshot[rf].present /\ ClimateCapable(snapshot[rf]))
                  => entity_device[rf] # None
            /\ (snapshot[rf].present /\ is_windowshutter(snapshot[rf]))
                  => shutter_device[rf] # None

\* C13: a refresh never makes more than two attempts at cube.update, whatever
\* it fails with (a connection error under the persistent policy included),
\* and one that fails with a timeout or with an error of the protocol has made
\* exactly one.
C13_AttemptsPerRefresh ==
    \A t \in Tasks :
        /\ attempts[t] <= 2
        /\ (pc[t] = "resuming" /\ exc[t] \in {"TimeoutError", "ValueError"})
              => attempts[t] = 1

\* A refresh whose only attempt timed out is about to raise UpdateFailed.
C13_Witness ==
    \E t \in Tasks :
        pc[t] = "resuming" /\ exc[t] = "TimeoutError" /\ attempts[t] = 1

\* C14: when a refresh fails, the connection is Disconnected at the moment
\* UpdateFailed reaches the caller.
C14_FailedRefreshLeavesDisconnected ==
    raised.from = "_async_update_data" => session = Disconnected

\* C17: once the entry is unloaded and every job has returned, the connection
\* is Disconnected.
C17_UnloadedStaysDisconnected ==
    (/\ lifecycle = "unloaded"
     /\ disconnects = {}
     /\ \A t \in Tasks : pc[t] = "idle")
        => session = Disconnected

\* The lock is with a task inside the refresh or with the queued task it was
\* handed to, and a task queues only behind another one.
LockHeldInsideRefresh ==
    /\ \A t \in Tasks :
          /\ lock = t => pc[t] \in {"updating", "resuming", "waiting"}
          /\ pc[t] \in {"updating", "resuming"} => lock = t
          /\ pc[t] = "waiting"
                => (lock = t \/ \E i \in 1..Len(waiters) : waiters[i] = t)
          /\ (\E i \in 1..Len(waiters) : waiters[i] = t)
                => (pc[t] = "waiting" /\ lock \notin {t, NoTask})
    /\ lock = NoTask => waiters = <<>>

\* C18: the update lock is always released: whoever has left the refresh, by
\* return or by UpdateFailed, no longer holds it, and a refresh that waits for
\* the lock eventually runs its cube.update, however many refreshes fail
\* before it (every cube.update job returning or raising in the end).
C18_LockReleased ==
    /\ []LockHeldInsideRefresh
    /\ \A t \in Tasks : (pc[t] = "waiting") ~> (pc[t] = "updating")

\* A refresh has just failed with UpdateFailed, and the refresh that was
\* queued behind it has been handed the lock.
C18_Witness ==
    /\ raised.from = "_async_update_data"
    /\ \E t \in Tasks : lock = t /\ pc[t] = "waiting"

\* C21: once the gateway reports what async_set_preset_mode(p) sent, the
\* entity's preset is p, for every supported preset p and every thermostat
\* whose comfort and eco temperatures are set.
C21_PresetRoundTrip ==
    \A t \in Tasks :
        (/\ pc[t] = "read_back"
         /\ args[t].request \in SUPPORT_PRESETS
         /\ cube[args[t].device].comfort_temperature # None
         /\ cube[args[t].device].eco_temperature # None)
            => attrs[args[t].device].preset_mode = args[t].request

\* C22: what async_set_temperature sends is manual mode with a temperature
\* between the entity's min_temp and max_temp and between 5.0 and 30.0.
C22_SetTemperatureClamped ==
    \A t \in Tasks :
        (pc[t] = "sending" /\ args[t].request = "set_temperature")
            => /\ args[t].mode = MAX_DEVICE_MODE_MANUAL
               /\ min_temp(cube[args[t].device]) <= args[t].temperature
               /\ args[t].temperature <= max_temp(cube[args[t].device])
               /\ 10 <= args[t].temperature
               /\ args[t].temperature <= 60

\* C23: after a coordinator update the target temperature an entity reports
\* is None when its hvac mode is off, and otherwise None or a value between
\* min_temp and max_temp, never 4.5 or 30.5.
C23_TargetConsistentWithMode ==
    (\E t \in Tasks : pc[t] = "read_back") =>
        \A rf \in RfAddresses : entity_device[rf] # None =>
            LET att == attrs[rf]
                dev == cube[entity_device[rf]]
            IN /\ att.hvac_mode = HVAC_OFF => att.target_temperature = None
               /\ (att.hvac_mode # HVAC_OFF /\ att.target_temperature # None)
                     => /\ min_temp(dev) <= att.target_temperature
                        /\ att.target_temperature <= max_temp(dev)
                        /\ att.target_temperature \notin {9, 61}

C25_CoordinatorsMatchLoadedEntries ==
    (\A e \in Entries :
        entries[e].pc \in {"none", "not_loaded", "setup_retry", "loaded",
                           "failed_unload"})
    => /\ hass_data.coordinators =
             {e \in Entries : entries[e].pc \in {"loaded", "failed_unload"}}
       /\ hass_data.present <=> hass_data.coordinators # {}
       /\ \A e \in Entries :
             /\ entries[e].pc = "setup_retry" => ~entries[e].platforms
             /\ entries[e].pc = "failed_unload" => ~entries[e].disconnect_issued

\* C26: a flow step creates an entry only after the connection was opened and
\* disconnect returned; a failure of the connect or of the disconnect gives
\* the form with cannot_connect and no entry; a gateway never gets a second
\* entry; and a step that is over has invoked disconnect on the connection it
\* opened.
C26_EntryOnlyAfterValidation ==
    /\ \A f \in Flows :
          /\ flows[f].result = "create_entry"
                => /\ flows[f].opened
                   /\ flows[f].disconnect_invoked
                   /\ flows[f].failed = "none"
          /\ flows[f].failed # "none"
                => (flows[f].pc = "form" /\ flows[f].result = "cannot_connect")
          /\ (flows[f].pc \in {"form", "done"} /\ flows[f].opened)
                => flows[f].disconnect_invoked
    /\ \A g \in Entries :
          /\ entries[g].created <= 1
          /\ entries[g].created =
                Cardinality({f \in Flows : /\ flows[f].serial = g
                                           /\ flows[f].result = "create_entry"})

\* C26 happens: one flow created the entry of a gateway, and the other flow,
\* for the same gateway, connected and disconnected and was refused.
C26_Witness ==
    \E f, g \in Flows :
        /\ flows[f].result = "create_entry"
        /\ flows[g].serial = flows[f].serial
        /\ flows[g].pc = "form"
        /\ flows[g].opened
        /\ flows[g].disconnect_invoked
        /\ flows[g].failed = "none"

=============================================================================
